---- MODULE Spec2Model ----
(***************************************************************************)
(* A model of the goof assertion library (src/src/lib.rs).                 *)
(*                                                                         *)
(* The library is a set of pure functions: three assertion families that   *)
(* return Ok(value) or a structured error, the Display renderings of the   *)
(* three error types, and the join helper the Unknown rendering uses.      *)
(* The state machine below is a caller: the call to make (one function and *)
(* its arguments) is drawn from bounded sets, a step makes the call and    *)
(* records what it returned, and a further step renders the error a failed *)
(* assertion returned.                                                     *)
(* A Rust panic (an out-of-bounds index, the panic! macro) is the outcome  *)
(* Panic.                                                                  *)
(***************************************************************************)
EXTENDS Integers, Sequences, FiniteSets, TLC

VARIABLES call, res, out

vars == <<call, res, out>>

(***************************************************************************)
(* Bounds of the model.                                                    *)
(***************************************************************************)
\* largest value of the element type T that is drawn
MaxVal == 10
\* longest slice (knowns, items) that is drawn
MaxLen == 3

Values == 0..MaxVal

Slices == UNION {[1..n -> Values] : n \in 0..MaxLen}

Ranges == [start : Values, end : Values]

Separators == {", ", ",", ""}

(***************************************************************************)
(* Values of the library's types.                                          *)
(***************************************************************************)
\* Result::Ok, Result::Err, and the unwinding of a panic
Ok(v) == [tag |-> "Ok", val |-> v]

Err(e) == [tag |-> "Err", err |-> e]

Panic == [tag |-> "Panic"]

\* Option<&[T]>
Some(s) == [some |-> TRUE, items |-> s]

None == [some |-> FALSE]

Mismatch(expected, actual) ==
    [type |-> "Mismatch", expected |-> expected, actual |-> actual]

Outside(range, value) ==
    [type |-> "Outside", range |-> range, value |-> value]

Unknown(knowns, value) ==
    [type |-> "Unknown", knowns |-> knowns, value |-> value]

\* what a rendering (Display::fmt into a String) produced
Text(s) == [tag |-> "text", text |-> s]

NoOut == [tag |-> "none"]

(***************************************************************************)
(* Text rendering of an unsigned integer (T's Display, as to_string and    *)
(* the {} placeholder use it): its decimal digits, most significant first. *)
(***************************************************************************)
Digits == <<"0", "1", "2", "3", "4", "5", "6", "7", "8", "9">>

RECURSIVE to_string(_)
to_string(n) ==
    IF n < 10 THEN Digits[n + 1]
    ELSE to_string(n \div 10) \o Digits[(n % 10) + 1]

(***************************************************************************)
(* The assertion functions.                                                *)
(***************************************************************************)
\* assert_eq(actual, expected): the FIRST parameter is named actual and the
\* second expected; the Mismatch is filled from the parameters by name.
assert_eq(actual, expected) ==
    IF expected = actual
    THEN Ok(expected)
    ELSE Err(Mismatch(expected, actual))

\* assert_in with a conventional start <= v < end test of the upper bound
assert_in_upper_exclusive(value, range) ==
    IF value > range.start /\ value < range.end
    THEN Ok(value)
    ELSE Err(Outside(range, value))

\* assert_in with an inclusive lower bound
assert_in_lower_inclusive(value, range) ==
    IF value >= range.start /\ value <= range.end
    THEN Ok(value)
    ELSE Err(Outside(range, value))

assert_in(value, range) ==
    IF value > range.start /\ value <= range.end
    THEN Ok(value)
    ELSE Err(Outside(range, value))

\* <[T]>::contains: a linear scan, first match decides
RECURSIVE contains(_, _, _)
contains(s, x, i) ==
    IF i > Len(s) THEN FALSE
    ELSE IF s[i] = x THEN TRUE
    ELSE contains(s, x, i + 1)

assert_known_enum(knowns, value) ==
    IF contains(knowns, value, 1)
    THEN Ok(value)
    ELSE Err(Unknown(Some(knowns), value))

\* assert_known keeping the reference list, as assert_known_enum does
assert_known_retains(knowns, value) ==
    IF contains(knowns, value, 1)
    THEN Ok(value)
    ELSE Err(Unknown(Some(knowns), value))

assert_known(knowns, value) ==
    IF contains(knowns, value, 1)
    THEN Ok(value)
    ELSE Err(Unknown(None, value))

(***************************************************************************)
(* join.  The loop of lines 179-182 over idx in 1..items.len() (0-based),  *)
(* here idx + 1 in 2..Len(items).                                          *)
(***************************************************************************)
RECURSIVE join_loop(_, _, _, _)
join_loop(items, separator, idx, buffer) ==
    IF idx > Len(items) THEN buffer
    ELSE join_loop(items, separator, idx + 1,
                   (buffer \o separator) \o to_string(items[idx]))

\* items[0] panics on an empty slice (a bounds-checked index).  first_element
\* only sizes the buffer: String::with_capacity returns an EMPTY string, and
\* first_element is never pushed into it.
join(items, separator) ==
    IF Len(items) = 0 THEN Panic
    ELSE LET first_element == to_string(items[1])
             buffer == ""
         IN  Ok(join_loop(items, separator, 2, buffer))

(***************************************************************************)
(* The human-readable renderings (impl Display).                           *)
(***************************************************************************)
fmt_Mismatch(self) ==
    Text((("Expected " \o to_string(self.expected)) \o ", but got ")
         \o to_string(self.actual))

\* the rendering with the strict test value > end of the upper bound
fmt_Outside_strict(self) ==
    IF self.value > self.range.end
    THEN Text((("Value " \o to_string(self.value)) \o " exceeds maximum ")
              \o to_string(self.range.end))
    ELSE IF self.value < self.range.start
    THEN Text((("Value " \o to_string(self.value)) \o " below minimum ")
              \o to_string(self.range.start))
    ELSE Panic

fmt_Outside(self) ==
    IF self.value >= self.range.end
    THEN Text((("Value " \o to_string(self.value)) \o " exceeds maximum ")
              \o to_string(self.range.end))
    ELSE IF self.value < self.range.start
    THEN Text((("Value " \o to_string(self.value)) \o " below minimum ")
              \o to_string(self.range.start))
    ELSE Panic

\* the arguments of the second write! are evaluated first, so a panic in join
\* unwinds out of fmt; join's Err would be returned by the ? operator
fmt_Unknown(self) ==
    LET head == ("The value " \o to_string(self.value)) \o " is not known"
    IN  IF self.knowns.some
        THEN LET joined == join(self.knowns.items, ", ")
             IN  IF joined.tag = "Panic" THEN Panic
                 ELSE IF joined.tag = "Err" THEN [tag |-> "fmt_error"]
                 ELSE Text(((head \o "Because it's not one of [")
                            \o joined.val) \o "]")
        ELSE Text(head \o ".")

(***************************************************************************)
(* The caller.  Init draws one pending call (a function of the library and *)
(* its arguments); the Call step applies the function to the arguments,    *)
(* and a Display step renders the error the call returned.                 *)
(***************************************************************************)
Pending == [tag |-> "pending"]

Init ==
    /\ res = Pending
    /\ out = NoOut
    /\ \/ \E a \in Values, b \in Values :
              call = [fn |-> "assert_eq", first |-> a, second |-> b]
       \/ \E v \in Values, r \in Ranges :
              call = [fn |-> "assert_in", value |-> v, range |-> r]
       \/ \E k \in Slices, v \in Values :
              call = [fn |-> "assert_known_enum", knowns |-> k, value |-> v]
       \/ \E k \in Slices, v \in Values :
              call = [fn |-> "assert_known", knowns |-> k, value |-> v]
       \/ \E s \in Slices, sep \in Separators :
              call = [fn |-> "join", items |-> s, separator |-> sep]
       \/ \E v \in Values, r \in Ranges :
              call = [fn |-> "Outside", value |-> v, range |-> r]

CallAssertEq ==
    /\ res = Pending
    /\ call.fn = "assert_eq"
    /\ res' = assert_eq(call.first, call.second)
    /\ UNCHANGED <<call, out>>

CallAssertIn ==
    /\ res = Pending
    /\ call.fn = "assert_in"
    /\ res' = assert_in(call.value, call.range)
    /\ UNCHANGED <<call, out>>

CallAssertKnownEnum ==
    /\ res = Pending
    /\ call.fn = "assert_known_enum"
    /\ res' = assert_known_enum(call.knowns, call.value)
    /\ UNCHANGED <<call, out>>

CallAssertKnown ==
    /\ res = Pending
    /\ call.fn = "assert_known"
    /\ res' = assert_known(call.knowns, call.value)
    /\ UNCHANGED <<call, out>>

CallJoin ==
    /\ res = Pending
    /\ call.fn = "join"
    /\ res' = join(call.items, call.separator)
    /\ UNCHANGED <<call, out>>

\* an Outside built as a struct literal inside the crate (its fields are
\* pub(crate)), as the tests build theirs
NewOutside ==
    /\ res = Pending
    /\ call.fn = "Outside"
    /\ res' = Err(Outside(call.range, call.value))
    /\ UNCHANGED <<call, out>>

DisplayMismatch ==
    /\ res.tag = "Err"
    /\ res.err.type = "Mismatch"
    /\ out = NoOut
    /\ out' = fmt_Mismatch(res.err)
    /\ UNCHANGED <<call, res>>

DisplayOutside ==
    /\ res.tag = "Err"
    /\ res.err.type = "Outside"
    /\ out = NoOut
    /\ out' = fmt_Outside(res.err)
    /\ UNCHANGED <<call, res>>

DisplayUnknown ==
    /\ res.tag = "Err"
    /\ res.err.type = "Unknown"
    /\ out = NoOut
    /\ out' = fmt_Unknown(res.err)
    /\ UNCHANGED <<call, res>>

Next ==
    \/ CallAssertEq
    \/ CallAssertIn
    \/ CallAssertKnownEnum
    \/ CallAssertKnown
    \/ CallJoin
    \/ NewOutside
    \/ DisplayMismatch
    \/ DisplayOutside
    \/ DisplayUnknown

Spec == Init /\ [][Next]_vars

(***************************************************************************)
(* The claims.  Called: the call has been made and res holds its result.   *)
(* Rendered: the error the call returned has been rendered into out.       *)
(***************************************************************************)
Called(fn) == call.fn = fn /\ res # Pending

Rendered(fn) == Called(fn) /\ out # NoOut

Occurs(v, K) == \E i \in 1..Len(K) : K[i] = v

\* the joined text the claims describe: the first element's rendering, then
\* for each later element the separator and that element's rendering
RECURSIVE Joined(_, _)
Joined(items, sep) ==
    IF Len(items) = 1 THEN to_string(items[1])
    ELSE (Joined(SubSeq(items, 1, Len(items) - 1), sep) \o sep)
         \o to_string(items[Len(items)])

ExceedsMaximum(v, end) ==
    Text((("Value " \o to_string(v)) \o " exceeds maximum ") \o to_string(end))

BelowMinimum(v, start) ==
    Text((("Value " \o to_string(v)) \o " below minimum ") \o to_string(start))

\* C1: assert_in(v, start..end) returns Ok(v) iff start < v <= end, and
\* otherwise Err(Outside) carrying exactly the supplied range and v; so
\* v = start is rejected and v = end (with start < end) is accepted.
C1_AssertInHalfOpenLeft ==
    Called("assert_in") =>
        res = IF call.range.start < call.value /\ call.value <= call.range.end
              THEN Ok(call.value)
              ELSE Err(Outside(call.range, call.value))

C1_Witness ==
    /\ Called("assert_in")
    /\ call.range.start < call.range.end
    /\ call.value = call.range.end
    /\ res = Ok(call.value)

\* C2: assert_eq(a, b) returns Ok of the expected value when a = b, and
\* otherwise a Mismatch with expected = a (the first argument) and
\* actual = b (the second argument).
C2_MismatchInArgumentOrder ==
    Called("assert_eq") =>
        res = IF call.first = call.second
              THEN Ok(call.first)
              ELSE Err(Mismatch(call.first, call.second))

\* C3: assert_known_enum(K, v) and assert_known(K, v) return Ok(v) iff v
\* occurs in K; on failure assert_known_enum returns Unknown with knowns =
\* Some(K), K as supplied, and assert_known returns Unknown with knowns = None.
C3_KnownMembership ==
    /\ Called("assert_known_enum") =>
           res = IF Occurs(call.value, call.knowns)
                 THEN Ok(call.value)
                 ELSE Err(Unknown(Some(call.knowns), call.value))
    /\ Called("assert_known") =>
           res = IF Occurs(call.value, call.knowns)
                 THEN Ok(call.value)
                 ELSE Err(Unknown(None, call.value))

C3_Witness ==
    /\ Called("assert_known")
    /\ Len(call.knowns) = MaxLen
    /\ call.knowns[1] = call.knowns[MaxLen]
    /\ res = Err(Unknown(None, call.value))

\* C4: for a non-empty sequence of items, join(items, separator) returns the
\* first element's rendering followed by, for each later element in order,
\* the separator and that element's rendering.
C4_JoinRendersEveryElement ==
    (Called("join") /\ Len(call.items) > 0) =>
        res = Ok(Joined(call.items, call.separator))

\* C5: rendering the Outside error that assert_in returned yields the
\* "exceeds maximum" or the "below minimum" message, never the panic branch.
C5_OutsideRenderingNeverPanics ==
    Rendered("assert_in") =>
        \/ out = ExceedsMaximum(call.value, call.range.end)
        \/ out = BelowMinimum(call.value, call.range.start)

\* C6: join of an empty sequence returns an Err result, for every separator.
C6_JoinEmptyIsReportedError ==
    (Called("join") /\ Len(call.items) = 0) => res.tag = "Err"

\* C7: the rendering of an Unknown error with value v is "The value {v} is
\* not known." when knowns is absent, and "The value {v} is not known Because
\* it's not one of [{k1, k2, ..., kn}]" when knowns is present and non-empty.
C7_UnknownRenderingText ==
    /\ Rendered("assert_known") =>
           out = Text(("The value " \o to_string(call.value))
                      \o " is not known.")
    /\ (Rendered("assert_known_enum") /\ Len(call.knowns) > 0) =>
           out = Text(((("The value " \o to_string(call.value))
                        \o " is not known Because it's not one of [")
                       \o Joined(call.knowns, ", ")) \o "]")

\* C8: for every sequence K, the empty one included, and every v not in K,
\* rendering the error assert_known_enum(K, v) returned yields a text.
C8_UnknownRenderingNeverPanics ==
    Rendered("assert_known_enum") => out.tag = "text"

\* C9: the rendering of Outside{range, value} is the "exceeds maximum"
\* message naming value and range.end whenever value >= range.end, and
\* otherwise the "below minimum" message naming value and range.start
\* whenever value < range.start, for every range.
C9_OutsideRenderingClassifies ==
    (res.tag = "Err" /\ res.err.type = "Outside" /\ out # NoOut) =>
        LET e == res.err
        IN  /\ e.value >= e.range.end =>
                   out = ExceedsMaximum(e.value, e.range.end)
            /\ (e.value < e.range.end /\ e.value < e.range.start) =>
                   out = BelowMinimum(e.value, e.range.start)

C9_Witness ==
    /\ res.tag = "Err"
    /\ res.err.type = "Outside"
    /\ res.err.value >= res.err.range.end
    /\ res.err.value < res.err.range.start
    /\ out = ExceedsMaximum(res.err.value, res.err.range.end)

\* C10: for a range with start >= end, assert_in rejects every value v with
\* Err(Outside{range, value: v}).
C10_EmptyRangeRejectsAll ==
    (Called("assert_in") /\ call.range.start >= call.range.end) =>
        res = Err(Outside(call.range, call.value))

C10_Witness ==
    /\ Called("assert_in")
    /\ call.range.start = call.range.end
    /\ call.value = call.range.start
    /\ res = Err(Outside(call.range, call.value))
====
